---- MODULE Spec2Model ----
(***************************************************************************)
(* openclaw-mcp-bridge: the connection pool and tool router of the two     *)
(* variants of the plugin.                                                 *)
(*   deferred variant (src/unnamed/part_000): tools are registered from a  *)
(*     cached catalog at load time, sessions are opened lazily by          *)
(*     getClient on the first tool call.                                   *)
(*   eager variant (src/unnamed/part_001): the service's start connects to *)
(*     every enabled server, lists its tools and registers them.           *)
(* Names (server names, tool names) are sequences of one-character         *)
(* strings, so that sanitizeToolName is computed character by character.   *)
(* Every await of the code is a point where the model lets other           *)
(* operations run; the code between two awaits is one atomic step.         *)
(***************************************************************************)
EXTENDS Integers, Sequences, FiniteSets, TLC

\* ---------------------------------------------------------------- bounds
\* Tool invocations (calls of execute) in one run; they may all overlap.
NumCallers == 2
\* Calls of the service's stop in one run.
MaxStops == 1
\* Calls of the service's start in one run.
MaxStarts == 2

Callers == 1..NumCallers

\* ------------------------------------------------------- insertion-ordered Map
\* A JavaScript Map: a sequence of [k, v] in insertion order; set on a key
\* that is present replaces the value in place.
MapHas(m, k) == \E i \in 1..Len(m) : m[i].k = k

MapGet(m, k) == m[CHOOSE i \in 1..Len(m) : m[i].k = k].v

MapSet(m, k, v) ==
    IF MapHas(m, k)
    THEN [i \in 1..Len(m) |-> IF m[i].k = k THEN [k |-> k, v |-> v] ELSE m[i]]
    ELSE Append(m, [k |-> k, v |-> v])

\* ------------------------------------------------------------ Name Resolver
LowerSeq == <<"a","b","c","d","e","f","g","h","i","j","k","l","m",
              "n","o","p","q","r","s","t","u","v","w","x","y","z">>
UpperSeq == <<"A","B","C","D","E","F","G","H","I","J","K","L","M",
              "N","O","P","Q","R","S","T","U","V","W","X","Y","Z">>
Digits == {"0","1","2","3","4","5","6","7","8","9"}

Range(f) == {f[i] : i \in DOMAIN f}

\* [a-zA-Z0-9_]
IsWordChar(ch) == ch \in Range(LowerSeq) \cup Range(UpperSeq) \cup Digits \cup {"_"}

\* String.prototype.toLowerCase on one character of the alphabet.
LowerChar(ch) ==
    IF ch \in Range(UpperSeq)
    THEN LowerSeq[CHOOSE i \in 1..Len(UpperSeq) : UpperSeq[i] = ch]
    ELSE ch

\* .replace(/[^a-zA-Z0-9_]/g, "_")
ReplaceNonWord(s) == [i \in 1..Len(s) |-> IF IsWordChar(s[i]) THEN s[i] ELSE "_"]

\* .replace(/_+/g, "_")
RECURSIVE CollapseUnderscores(_)
CollapseUnderscores(s) ==
    IF Len(s) <= 1 THEN s
    ELSE IF s[1] = "_" /\ s[2] = "_" THEN CollapseUnderscores(Tail(s))
    ELSE <<s[1]>> \o CollapseUnderscores(Tail(s))

\* .replace(/^_|_$/g, "")
StripEnds(s) ==
    LET a == IF Len(s) > 0 /\ s[1] = "_" THEN Tail(s) ELSE s
    IN  IF Len(a) > 0 /\ a[Len(a)] = "_" THEN SubSeq(a, 1, Len(a) - 1) ELSE a

\* .toLowerCase()
LowerCase(s) == [i \in 1..Len(s) |-> LowerChar(s[i])]

\* the inner sanitize of sanitizeToolName
Sanitize(s) == LowerCase(StripEnds(CollapseUnderscores(ReplaceNonWord(s))))

sanitizeToolName(serverName, toolName, prefix) ==
    IF prefix
    THEN Sanitize(serverName) \o <<"_">> \o Sanitize(toolName)
    ELSE Sanitize(toolName)

\* ------------------------------------------------------------ configuration
Todo == <<"t","o","d","o">>
Web  == <<"W","e","b">>
Bad  == <<"b","a","d">>
Off  == <<"o","f","f">>
Gone == <<"g","o","n","e">>

\* The plugin configuration's servers, in Object.entries order. command and
\* url say whether the field is truthy; enabled and toolPrefix are "unset",
\* "true" or "false".
Config == <<
    [name |-> Todo, command |-> TRUE,  url |-> FALSE, enabled |-> "unset", toolPrefix |-> "unset"],
    [name |-> Bad,  command |-> FALSE, url |-> FALSE, enabled |-> "unset", toolPrefix |-> "true"],
    [name |-> Web,  command |-> FALSE, url |-> TRUE,  enabled |-> "true",  toolPrefix |-> "false"],
    [name |-> Off,  command |-> TRUE,  url |-> FALSE, enabled |-> "false", toolPrefix |-> "unset"] >>

\* servers[serverName] is defined
HasConfig(s) == \E i \in 1..Len(Config) : Config[i].name = s

ConfigOf(s) == Config[CHOOSE i \in 1..Len(Config) : Config[i].name = s]

\* The tools each server advertises (tools/list), which is also what the
\* discovery script wrote to the cache. The tool of web, registered without
\* prefix, gets the local name of the tool of todo: todo_l_t.
ListTools(s) ==
    IF s = Todo THEN << [name |-> <<"l","-","t">>] >>
    ELSE IF s = Web THEN << [name |-> <<"T","o","d","o",".","l","_","t">>] >>
    ELSE << [name |-> <<"x">>] >>

\* The persisted catalog: it also holds a server that is disabled and one
\* that is gone from the configuration.
CacheDoc == [version |-> 1,
             servers |-> << [server |-> Todo, tools |-> ListTools(Todo)],
                            [server |-> Gone, tools |-> ListTools(Gone)],
                            [server |-> Web,  tools |-> ListTools(Web)],
                            [server |-> Off,  tools |-> ListTools(Off)],
                            [server |-> Bad,  tools |-> ListTools(Bad)] >>]

\* What the plugin directory may hold as .mcp-tools-cache.json: no file, a
\* file that is not JSON, or a JSON document. serversIsArray is
\* Array.isArray(cache.servers).
MissingFile == [kind |-> "missing", version |-> 0, serversIsArray |-> FALSE, servers |-> << >>]
UnparsableFile == [kind |-> "unparsable", version |-> 0, serversIsArray |-> FALSE, servers |-> << >>]
WrongVersionFile == [kind |-> "json", version |-> 2, serversIsArray |-> TRUE,
                     servers |-> CacheDoc.servers]
NoSequenceFile == [kind |-> "json", version |-> 1, serversIsArray |-> FALSE, servers |-> << >>]
EmptyFile == [kind |-> "json", version |-> 1, serversIsArray |-> TRUE, servers |-> << >>]
CacheFile == [kind |-> "json", version |-> CacheDoc.version, serversIsArray |-> TRUE,
              servers |-> CacheDoc.servers]
CacheFiles == {MissingFile, UnparsableFile, WrongVersionFile, NoSequenceFile, EmptyFile,
               CacheFile}

\* loadCache's null
NoCache == [kind |-> "null", version |-> 0, serversIsArray |-> FALSE, servers |-> << >>]

\* Mutant: loadCache without the test of the version tag.
loadCacheAnyVersion(file) ==
    IF file.kind # "json" THEN NoCache
    ELSE IF ~file.serversIsArray THEN NoCache
    ELSE file

\* loadCache: readFileSync or JSON.parse throwing is caught and gives null,
\* as do a version other than 1 and a servers field that is not an array.
loadCache(file) ==
    IF file.kind # "json" THEN NoCache
    ELSE IF file.version # 1 \/ ~file.serversIsArray THEN NoCache
    ELSE file

ServerNames == {Config[i].name : i \in 1..Len(Config)}
                 \cup {CacheDoc.servers[i].server : i \in 1..Len(CacheDoc.servers)}

\* Arguments a caller may pass to a tool.
ArgValues == {"args1"}

\* --------------------------------------------------------------------- state
VARIABLES
    variant,      \* "deferred" (part_000) or "eager" (part_001)
    cache,        \* the cache file in the plugin directory (read by the deferred variant)
    clients,      \* Map server name -> id of the stored session
    connecting,   \* deferred: server name -> id of the in-flight attempt, 0 if none
    transports,   \* eager: Map server name -> id of the stdio transport's attempt
    attempts,     \* every connectServer call that got past the transport choice or
                  \* was awaited by getClient; the index of an attempt is also the
                  \* id of the session (Client) it yields
    registry,     \* the registerTool calls so far, in order
    pc,           \* per caller: where its execute call stands
    reg,          \* per caller: index in registry of the tool it invoked, 0 if idle
    args,         \* per caller: the arguments it passed
    att,          \* per caller: the attempt it awaits or the session it was given
    via,          \* per caller: the branch its lookup of the session took
    fwd,          \* per caller: the callTool requests this execute call has sent
    reply,        \* per caller: how callTool settled
    result,       \* per caller: what execute returned
    startPc,      \* eager start: "idle", "connect" (await client.connect) or "list"
    startIdx,     \* eager start: index in enabledServers of the server in hand
    stopPc,       \* stop: "idle", "clients" (await client.close) or "transports"
    stopIdx,      \* stop: position of the Map iterator
    stopSnapshot, \* ids of the sessions that were stored when the running stop was called
    closeFailed,  \* a client.close() of the running stop has failed
    starts,       \* eager: calls of start so far
    stops,        \* calls of stop that have returned or thrown so far
    lastStart,    \* how the last start ended: "none", "returned", "threw"
    lastStop,     \* how the last stop ended: "none", "returned", "threw"
    probe         \* a single call of sanitizeToolName or connectServer on inputs
                  \* of its own, outside a run of the plugin

vars == << variant, cache, clients, connecting, transports, attempts, registry, pc, reg,
           args, att, via, fwd, reply, result, startPc, startIdx, stopPc, stopIdx,
           stopSnapshot, closeFailed, starts, stops, lastStart, lastStop, probe >>

\* The state of a run of the plugin.
pluginVars == << variant, cache, clients, connecting, transports, attempts, registry,
                 pc, reg, args, att, via, fwd, reply, result, startPc, startIdx,
                 stopPc, stopIdx, stopSnapshot, closeFailed, starts, stops, lastStart,
                 lastStop >>

callerVars == << pc, reg, args, att, via, fwd, reply, result >>
startVars == << startPc, startIdx, starts, lastStart >>
stopVars == << stopPc, stopIdx, stopSnapshot, closeFailed, stops, lastStop >>

NoReply == [status |-> "none"]
NoResult == [status |-> "none"]

\* ------------------------------------------------------------- registration
\* toolPrefix !== false
PrefixOf(cfg) == cfg.toolPrefix # "false"

\* One registerTool call: the handler closes over serverName and mcpToolName.
Registration(serverName, tool, prefix) ==
    [name   |-> sanitizeToolName(serverName, tool.name, prefix),
     server |-> serverName,
     remote |-> tool.name]

\* for (const tool of tools) api.registerTool(...)
RegisterTools(serverName, tools, prefix) ==
    [i \in 1..Len(tools) |-> Registration(serverName, tools[i], prefix)]

\* The deferred variant's registration loop over the cache entries.
RECURSIVE RegisterFromCache(_)
RegisterFromCache(entries) ==
    IF entries = << >> THEN << >>
    ELSE LET e == Head(entries)
         IN  (IF ~HasConfig(e.server) \/ ConfigOf(e.server).enabled = "false"
              THEN << >>
              ELSE RegisterTools(e.server, e.tools, PrefixOf(ConfigOf(e.server))))
             \o RegisterFromCache(Tail(entries))

\* register of the deferred variant: without a cache, or with a cache that
\* lists no server, it warns and returns before anything is registered.
CacheUsable(file) == loadCache(file) # NoCache /\ Len(loadCache(file).servers) > 0

RegisterDeferred(file) ==
    IF CacheUsable(file) THEN RegisterFromCache(loadCache(file).servers) ELSE << >>

\* ------------------------------------------------------------------ results
\* A text content item; the message is kept as its template and the values
\* interpolated into it.
TextItem(text) == [type |-> "text", text |-> text]

\* `MCP error (${serverName}/${mcpToolName}): ${err.message ?? String(err)}`
McpErrorResult(serverName, mcpToolName, cause) ==
    [content |-> [shape |-> "array",
                  items |-> << TextItem([tmpl |-> "MCP error", server |-> serverName,
                                         remote |-> mcpToolName, cause |-> cause]) >>],
     isError |-> TRUE]

\* `Error: MCP server '${serverName}' is not connected`
NotConnectedResult(serverName, mcpToolName) ==
    [content |-> [shape |-> "array",
                  items |-> << TextItem([tmpl |-> "not connected",
                                         server |-> serverName]) >>],
     isError |-> TRUE]

\* What callTool may resolve with: content as an array, no content, or
\* content of another shape; the error flag absent, true or false.
RemoteContent == [shape |-> "array", items |-> << TextItem([tmpl |-> "remote"]) >>]
RemoteResults ==
    { [status |-> "resolved", shape |-> "array",  content |-> RemoteContent, flag |-> "absent"],
      [status |-> "resolved", shape |-> "absent", content |-> [shape |-> "absent", items |-> << >>],
       flag |-> "true"],
      [status |-> "resolved", shape |-> "other",
       content |-> [shape |-> "other", items |-> << >>], flag |-> "false"] }

\* { content: result.content ?? [{type:"text", text: JSON.stringify(result)}],
\*   isError: result.isError === true }
SuccessResult(res) ==
    [content |-> IF res.shape # "absent"
                 THEN res.content
                 ELSE [shape |-> "array",
                       items |-> << TextItem([tmpl |-> "json", shape |-> res.shape,
                                              flag |-> res.flag]) >>],
     isError |-> res.flag = "true"]

\* Mutant: the call is forwarded under the sanitized local name.
CallToolRequestLocalName(r, params, session) ==
    [session |-> session, name |-> r.name, arguments |-> params]

\* client.callTool({ name: mcpToolName, arguments: params })
CallToolRequest(r, params, session) ==
    [session |-> session, name |-> r.remote, arguments |-> params]

\* The message of the error connectServer or client.connect threw.
ConnectCause(transport) ==
    IF transport = "none" THEN "must specify 'command' or 'url'" ELSE "connect failed"

\* ---------------------------------------------------------- Session Factory
\* How connectServer leaves its synchronous part: awaiting client.connect on
\* a stdio or an SSE transport, or thrown ("must specify 'command' or 'url'").
TransportOf(cfg) ==
    IF cfg.command THEN "stdio" ELSE IF cfg.url THEN "sse" ELSE "none"

\* The promise of one connectServer call. One whose transport is "none" is
\* rejected from the start; its state turns "fail" when the awaiting code resumes.
NewAttempt(serverName, cfg, epoch, run) ==
    [server    |-> serverName,
     transport |-> TransportOf(cfg),
     state     |-> "pending",  \* "ok": connected, "fail": rejected
     listed    |-> "none",     \* eager: how listTools settled: "ok", "fail"
     close     |-> "none",     \* client.close(): "called", "settled"
     epoch     |-> epoch,      \* stops completed when the attempt started
     run       |-> run]        \* eager: the call of start that made it

\* ---------------------------------------------------------------------- Init
NoProbe == [op |-> "none"]

\* The state after register has run.
InitPlugin ==
    /\ variant \in {"deferred", "eager"}
    /\ cache \in IF variant = "deferred" THEN CacheFiles ELSE {MissingFile}
    /\ clients = << >>
    /\ connecting = [s \in ServerNames |-> 0]
    /\ transports = << >>
    /\ attempts = << >>
    /\ registry = IF variant = "deferred" THEN RegisterDeferred(cache) ELSE << >>
    /\ pc = [c \in Callers |-> "idle"]
    /\ reg = [c \in Callers |-> 0]
    /\ args = [c \in Callers |-> "none"]
    /\ att = [c \in Callers |-> 0]
    /\ via = [c \in Callers |-> "none"]
    /\ fwd = [c \in Callers |-> << >>]
    /\ reply = [c \in Callers |-> NoReply]
    /\ result = [c \in Callers |-> NoResult]
    /\ startPc = "idle"
    /\ startIdx = 0
    /\ stopPc = "idle"
    /\ stopIdx = 0
    /\ stopSnapshot = << >>
    /\ closeFailed = FALSE
    /\ starts = 0
    /\ stops = 0
    /\ lastStart = "none"
    /\ lastStop = "none"

Init == InitPlugin /\ probe = NoProbe

\* The callers are the slots of the execute calls of the run; a new call
\* takes the lowest slot not used yet.
FreeSlot ==
    IF \E c \in Callers : pc[c] = "idle"
    THEN CHOOSE c \in Callers : pc[c] = "idle" /\ \A d \in Callers : pc[d] = "idle" => c <= d
    ELSE 0

\* ------------------------------------------------- Connection Pool (deferred)
\* Mutant: getClient without the lookup of the pending attempt.
GetClientBranchNoPending(cl, conn, serverName) ==
    IF MapHas(cl, serverName) THEN "existing"
    ELSE IF ~HasConfig(serverName) THEN "noconfig"
    ELSE "connect"

\* Mutant: getClient without the lookup of the stored session.
GetClientBranchNoExisting(cl, conn, serverName) ==
    IF conn[serverName] # 0 THEN "pending"
    ELSE IF ~HasConfig(serverName) THEN "noconfig"
    ELSE "connect"

\* The branch getClient takes, in the order the code tests them.
GetClientBranch(cl, conn, serverName) ==
    IF MapHas(cl, serverName) THEN "existing"
    ELSE IF conn[serverName] # 0 THEN "pending"
    ELSE IF ~HasConfig(serverName) THEN "noconfig"
    ELSE "connect"

\* Mutant: the session object is stored whether or not the connect succeeded.
ClientsStoredAlways(cl, serverName, a, ok) == MapSet(cl, serverName, a)

\* try { const client = await promise; clients.set(serverName, client) }
ClientsAfterAttempt(cl, serverName, a, ok) ==
    IF ok THEN MapSet(cl, serverName, a) ELSE cl

\* Mutant: the pending entry is deleted only when the attempt failed.
ConnectingKeptOnSuccess(conn, serverName, ok) ==
    IF ok THEN conn ELSE [conn EXCEPT ![serverName] = 0]

\* Mutant: the pending entry is deleted only when the attempt succeeded.
ConnectingKeptOnFailure(conn, serverName, ok) ==
    IF ok THEN [conn EXCEPT ![serverName] = 0] ELSE conn

\* Mutant: getClient without the finally.
ConnectingNeverDeleted(conn, serverName, ok) == conn

\* finally { connecting.delete(serverName) }
ConnectingAfterAttempt(conn, serverName, ok) == [conn EXCEPT ![serverName] = 0]

\* execute of the deferred variant, up to its first suspension: getClient
\* returns the stored session (and execute sends callTool), joins the pending
\* attempt, throws for a missing config, or starts connectServer.
Execute(c, r, params) ==
    /\ variant = "deferred"
    /\ c = FreeSlot
    /\ LET s == registry[r].server
           branch == GetClientBranch(clients, connecting, s)
           a == Len(attempts) + 1
       IN  /\ reg' = [reg EXCEPT ![c] = r]
           /\ args' = [args EXCEPT ![c] = params]
           /\ via' = [via EXCEPT ![c] = branch]
           /\ att' = [att EXCEPT ![c] =
                         IF branch = "existing" THEN MapGet(clients, s)
                         ELSE IF branch = "pending" THEN connecting[s]
                         ELSE IF branch = "connect" THEN a
                         ELSE 0]
           /\ pc' = [pc EXCEPT ![c] =
                         IF branch = "existing" THEN "awaitCall"
                         ELSE IF branch = "pending" THEN "awaitPending"
                         ELSE IF branch = "connect" THEN "awaitOwn"
                         ELSE "done"]
           /\ fwd' = [fwd EXCEPT ![c] =
                         IF branch = "existing"
                         THEN << CallToolRequest(registry[r], params, MapGet(clients, s)) >>
                         ELSE << >>]
           /\ result' = [result EXCEPT ![c] =
                         IF branch = "noconfig"
                         THEN McpErrorResult(s, registry[r].remote, "No config")
                         ELSE NoResult]
           /\ attempts' = IF branch = "connect"
                          THEN Append(attempts, NewAttempt(s, ConfigOf(s), stops, 0))
                          ELSE attempts
           /\ connecting' = IF branch = "connect"
                            THEN [connecting EXCEPT ![s] = a]
                            ELSE connecting
    /\ UNCHANGED << variant, cache, probe, clients, transports, registry, reply, startVars, stopVars >>

\* The promise of connectServer settles (client.connect resolved or rejected,
\* or connectServer had thrown), and the getClient call that started it
\* resumes from `await promise` in the same microtask run: it stores the
\* session on success and deletes the pending entry; execute then sends
\* callTool, or returns the normalized failure.
GetClientResume(c, connected) ==
    /\ variant = "deferred"
    /\ pc[c] = "awaitOwn"
    /\ LET a == att[c]
           s == attempts[a].server
           ok == connected /\ attempts[a].transport # "none"
       IN  /\ attempts[a].transport = "none" => ~connected
           /\ clients' = ClientsAfterAttempt(clients, s, a, ok)
           /\ connecting' = ConnectingAfterAttempt(connecting, s, ok)
           /\ attempts' = [attempts EXCEPT ![a].state = IF ok THEN "ok" ELSE "fail"]
           /\ pc' = [pc EXCEPT ![c] = IF ok THEN "awaitCall" ELSE "done"]
           /\ fwd' = [fwd EXCEPT ![c] =
                         IF ok THEN << CallToolRequest(registry[reg[c]], args[c], a) >>
                         ELSE << >>]
           /\ result' = [result EXCEPT ![c] =
                         IF ok THEN NoResult
                         ELSE McpErrorResult(s, registry[reg[c]].remote,
                                             ConnectCause(attempts[a].transport))]
    /\ UNCHANGED << variant, cache, probe, transports, registry, reg, args, att, via, reply,
                    startVars, stopVars >>

\* A getClient call that returned the pending promise resumes with its
\* outcome, after the call that started the attempt (which awaits the
\* promise directly) has resumed.
WaiterResume(c) ==
    /\ variant = "deferred"
    /\ pc[c] = "awaitPending"
    /\ attempts[att[c]].state # "pending"
    /\ LET a == att[c]
           s == attempts[a].server
           ok == attempts[a].state = "ok"
       IN  /\ pc' = [pc EXCEPT ![c] = IF ok THEN "awaitCall" ELSE "done"]
           /\ fwd' = [fwd EXCEPT ![c] =
                         IF ok THEN << CallToolRequest(registry[reg[c]], args[c], a) >>
                         ELSE << >>]
           /\ result' = [result EXCEPT ![c] =
                         IF ok THEN NoResult
                         ELSE McpErrorResult(s, registry[reg[c]].remote,
                                             ConnectCause(attempts[a].transport))]
    /\ UNCHANGED << variant, cache, probe, clients, connecting, transports, attempts, registry,
                    reg, args, att, via, reply, startVars, stopVars >>

\* ------------------------------------------------------- Tool Router (eager)
\* execute of the eager variant, up to its first suspension: the stored
\* session is looked up; without one the not-connected result is returned.
\* execute only reads the pool here, so the calls are independent of one
\* another and the model runs them one after the other, in slot 1.
ExecuteEager(c, r, params) ==
    /\ variant = "eager"
    /\ c = 1 /\ pc[c] \in {"idle", "returned"}
    /\ LET s == registry[r].server
           has == MapHas(clients, s)
       IN  /\ reg' = [reg EXCEPT ![c] = r]
           /\ args' = [args EXCEPT ![c] = params]
           /\ via' = [via EXCEPT ![c] = IF has THEN "existing" ELSE "absent"]
           /\ att' = [att EXCEPT ![c] = IF has THEN MapGet(clients, s) ELSE 0]
           /\ pc' = [pc EXCEPT ![c] = IF has THEN "awaitCall" ELSE "done"]
           /\ fwd' = [fwd EXCEPT ![c] =
                         IF has
                         THEN << CallToolRequest(registry[r], params, MapGet(clients, s)) >>
                         ELSE << >>]
           /\ result' = [result EXCEPT ![c] =
                         IF has THEN NoResult
                         ELSE NotConnectedResult(s, registry[r].remote)]
    /\ UNCHANGED << variant, cache, probe, clients, connecting, transports, attempts, registry,
                    reply, startVars, stopVars >>

\* callTool settles: execute returns the normalized result (both variants).
CallToolSettle(c, out) ==
    /\ pc[c] = "awaitCall"
    /\ reply' = [reply EXCEPT ![c] = out]
    /\ result' = [result EXCEPT ![c] =
                     IF out.status = "rejected"
                     THEN McpErrorResult(registry[reg[c]].server, registry[reg[c]].remote,
                                         "callTool failed")
                     ELSE SuccessResult(out)]
    /\ pc' = [pc EXCEPT ![c] = "done"]
    /\ UNCHANGED << variant, cache, probe, clients, connecting, transports, attempts, registry,
                    reg, args, att, via, fwd, startVars, stopVars >>

\* The host has taken execute's result; the slot is spent.
Return(c) ==
    /\ pc[c] = "done"
    /\ pc' = [pc EXCEPT ![c] = "returned"]
    /\ reg' = [reg EXCEPT ![c] = 0]
    /\ args' = [args EXCEPT ![c] = "none"]
    /\ att' = [att EXCEPT ![c] = 0]
    /\ via' = [via EXCEPT ![c] = "none"]
    /\ fwd' = [fwd EXCEPT ![c] = << >>]
    /\ reply' = [reply EXCEPT ![c] = NoReply]
    /\ result' = [result EXCEPT ![c] = NoResult]
    /\ UNCHANGED << variant, cache, probe, clients, connecting, transports, attempts, registry,
                    startVars, stopVars >>

\* ------------------------------------------------------------ service: start
\* api.registerService was called: always in the eager variant; in the
\* deferred variant only when register got past the cache test.
ServiceRegistered == variant = "eager" \/ CacheUsable(cache)


\* Mutant: start connects to every configured server.
EnabledServersUnfiltered == Config

\* Object.entries(servers).filter(([, cfg]) => cfg.enabled !== false)
EnabledServers == SelectSeq(Config, LAMBDA e : e.enabled # "false")

\* Mutant: start's loop without the try/catch.
StartCatchesNothing == FALSE

\* start's loop wraps each connectServer call in try/catch.
StartCatches == TRUE

\* From server i of enabledServers on, the loop runs without suspending over
\* the servers whose connectServer throws at once (no command, no url) and
\* reaches a server to connect, the end of the list, or an uncaught throw.
RECURSIVE StartScan(_)
StartScan(i) ==
    IF i > Len(EnabledServers) THEN [idx |-> 0, how |-> "returned"]
    ELSE IF TransportOf(EnabledServers[i]) # "none" THEN [idx |-> i, how |-> "connect"]
    ELSE IF StartCatches THEN StartScan(i + 1)
    ELSE [idx |-> 0, how |-> "threw"]

\* The loop goes on at server i: connectServer builds the transport (a stdio
\* transport is put in transports before the connect) and awaits
\* client.connect, or start ends.
StartGoto(i, atts, run) ==
    LET n == StartScan(i)
        cfg == EnabledServers[n.idx]
    IN  /\ startIdx' = n.idx
        /\ startPc' = IF n.how = "connect" THEN "connect" ELSE "idle"
        /\ lastStart' = IF n.how = "connect" THEN "running" ELSE n.how
        /\ attempts' = IF n.how = "connect"
                       THEN Append(atts, NewAttempt(cfg.name, cfg, stops, run))
                       ELSE atts
        /\ transports' = IF n.how = "connect" /\ TransportOf(cfg) = "stdio"
                         THEN MapSet(transports, cfg.name, Len(atts) + 1)
                         ELSE transports

\* The host calls start (the lifecycle calls do not overlap one another).
StartBegin ==
    /\ variant = "eager"
    /\ startPc = "idle" /\ stopPc = "idle"
    /\ starts < MaxStarts
    /\ starts' = starts + 1
    /\ StartGoto(1, attempts, starts + 1)
    /\ UNCHANGED << variant, cache, probe, clients, connecting, registry, callerVars, stopVars >>

\* await client.connect(transport) settles.
StartConnectSettle(ok) ==
    /\ startPc = "connect"
    /\ LET a == Len(attempts)
           s == EnabledServers[startIdx].name
           atts == [attempts EXCEPT ![a].state = IF ok THEN "ok" ELSE "fail"]
       IN  IF ok
           THEN /\ clients' = MapSet(clients, s, a)
                /\ attempts' = atts
                /\ startPc' = "list"
                /\ UNCHANGED << transports, startIdx, lastStart >>
           ELSE IF StartCatches
           THEN /\ StartGoto(startIdx + 1, atts, starts)
                /\ UNCHANGED clients
           ELSE /\ attempts' = atts
                /\ startPc' = "idle" /\ startIdx' = 0 /\ lastStart' = "threw"
                /\ UNCHANGED << clients, transports >>
    /\ UNCHANGED << variant, cache, probe, connecting, registry, callerVars, starts, stopVars >>

\* await client.listTools() settles; on success every tool is registered.
StartListSettle(ok) ==
    /\ startPc = "list"
    /\ LET a == Len(attempts)
           cfg == EnabledServers[startIdx]
           atts == [attempts EXCEPT ![a].listed = IF ok THEN "ok" ELSE "fail"]
       IN  /\ registry' = IF ok
                          THEN registry \o RegisterTools(cfg.name, ListTools(cfg.name),
                                                         PrefixOf(cfg))
                          ELSE registry
           /\ IF ok \/ StartCatches
              THEN StartGoto(startIdx + 1, atts, starts)
              ELSE /\ attempts' = atts
                   /\ startPc' = "idle" /\ startIdx' = 0 /\ lastStart' = "threw"
                   /\ UNCHANGED transports
    /\ UNCHANGED << variant, cache, probe, clients, connecting, callerVars, starts, stopVars >>

\* Mutant: start of the deferred variant opens the connection of the first
\* configured server.
StartDeferredConnects ==
    /\ variant = "deferred"
    /\ ServiceRegistered
    /\ startPc = "idle" /\ stopPc = "idle"
    /\ connecting[Config[1].name] = 0 /\ ~MapHas(clients, Config[1].name)
    /\ Len(attempts) = 0
    /\ attempts' = Append(attempts, NewAttempt(Config[1].name, Config[1], stops, 1))
    /\ connecting' = [connecting EXCEPT ![Config[1].name] = Len(attempts) + 1]
    /\ UNCHANGED << variant, cache, probe, clients, transports, registry, callerVars,
                    startVars, stopVars >>

\* start of the deferred variant: async () => {}
StartDeferred ==
    /\ variant = "deferred"
    /\ ServiceRegistered
    /\ startPc = "idle" /\ stopPc = "idle"
    /\ UNCHANGED vars

\* ------------------------------------------------------------- service: stop
\* Mutant: stop's loop without the try/catch.
StopCatchesNothing == FALSE

\* stop's loop wraps each client.close() in try/catch.
StopCatches == TRUE

\* The ids stored in a Map, in iteration order.
MapValues(m) == [i \in 1..Len(m) |-> m[i].v]

\* stop ends: returned or thrown.
StopEnds(how) ==
    /\ stopPc' = "idle" /\ stopIdx' = 0
    /\ stopSnapshot' = << >> /\ closeFailed' = FALSE
    /\ stops' = stops + 1 /\ lastStop' = how

\* clients.clear(); transports.clear()
StopClears ==
    /\ clients' = << >> /\ transports' = << >>
    /\ StopEnds("returned")

\* stop's loops go on at entry i of clients: close is called on it and
\* awaited; past the last entry the transports loop starts (the eager variant
\* has stored stdio transports), or the Maps are cleared and stop returns.
StopGoto(i, atts, failed, snapshot) ==
    IF i <= Len(clients)
    THEN /\ attempts' = [atts EXCEPT ![clients[i].v].close = "called"]
         /\ stopPc' = "clients" /\ stopIdx' = i
         /\ closeFailed' = failed /\ stopSnapshot' = snapshot
         /\ UNCHANGED << clients, transports, stops, lastStop >>
    ELSE IF Len(transports) > 0
    THEN /\ attempts' = atts
         /\ stopPc' = "transports" /\ stopIdx' = 1
         /\ closeFailed' = failed /\ stopSnapshot' = snapshot
         /\ UNCHANGED << clients, transports, stops, lastStop >>
    ELSE /\ attempts' = atts
         /\ StopClears

\* The host calls stop.
StopBegin ==
    /\ ServiceRegistered
    /\ startPc = "idle" /\ stopPc = "idle"
    /\ stops < MaxStops
    /\ IF Len(clients) > 0 \/ Len(transports) > 0
       THEN StopGoto(1, attempts, FALSE, MapValues(clients))
       ELSE /\ attempts' = attempts
            /\ StopClears
    /\ UNCHANGED << variant, cache, probe, connecting, registry, callerVars, startVars >>

\* await client.close() settles; a failure is caught and the loop goes on.
\* The Map iterator is live: a session stored meanwhile is visited too.
StopCloseSettle(ok) ==
    /\ stopPc = "clients"
    /\ LET a == clients[stopIdx].v
           atts == [attempts EXCEPT ![a].close = "settled"]
       IN  IF ok \/ StopCatches
           THEN StopGoto(stopIdx + 1, atts, closeFailed \/ ~ok, stopSnapshot)
           ELSE /\ attempts' = atts
                /\ StopEnds("threw")
                /\ UNCHANGED << clients, transports >>
    /\ UNCHANGED << variant, cache, probe, connecting, registry, callerVars, startVars >>

\* await transport.close() settles (eager); failures are ignored. After the
\* last transport both Maps are cleared and stop returns.
StopTransportSettle(ok) ==
    /\ stopPc = "transports"
    /\ IF stopIdx < Len(transports)
       THEN /\ stopIdx' = stopIdx + 1
            /\ UNCHANGED << clients, transports, stopPc, stopSnapshot, closeFailed,
                            stops, lastStop >>
       ELSE StopClears
    /\ UNCHANGED << variant, cache, probe, connecting, attempts, registry, callerVars, startVars >>

\* ---------------------------------------------------------------------- Next
Next ==
    \/ \E c \in Callers, r \in 1..Len(registry), p \in ArgValues : Execute(c, r, p)
    \/ \E c \in Callers, ok \in BOOLEAN : GetClientResume(c, ok)
    \/ \E c \in Callers : WaiterResume(c)
    \/ \E c \in Callers, r \in 1..Len(registry), p \in ArgValues : ExecuteEager(c, r, p)
    \/ \E c \in Callers, out \in RemoteResults \cup {[status |-> "rejected"]} :
          CallToolSettle(c, out)
    \/ \E c \in Callers : Return(c)
    \/ StartBegin
    \/ \E ok \in BOOLEAN : StartConnectSettle(ok)
    \/ \E ok \in BOOLEAN : StartListSettle(ok)
    \/ StartDeferred
    \/ StopBegin
    \/ \E ok \in BOOLEAN : StopCloseSettle(ok)
    \/ \E ok \in BOOLEAN : StopTransportSettle(ok)

Spec == Init /\ [][Next]_vars

\* Each variant alone.
SpecDeferred == Init /\ variant = "deferred" /\ [][Next]_vars
SpecEager == Init /\ variant = "eager" /\ [][Next]_vars

\* One server's connection is slow or hangs: its client.connect need never
\* settle. Every other pending operation of a remote server (the connect of
\* another server, listTools, callTool) settles in the end, and a resumed
\* continuation runs.
HungServer == Todo

SpecHang ==
    /\ Init /\ [][Next]_vars
    /\ WF_vars(\E c \in Callers, ok \in BOOLEAN :
                  GetClientResume(c, ok) /\ attempts[att[c]].server # HungServer)
    /\ WF_vars(\E c \in Callers : WaiterResume(c))
    /\ WF_vars(\E c \in Callers, out \in RemoteResults \cup {[status |-> "rejected"]} :
                  CallToolSettle(c, out))
    /\ WF_vars(\E ok \in BOOLEAN :
                  StartConnectSettle(ok) /\ EnabledServers[startIdx].name # HungServer)
    /\ WF_vars(\E ok \in BOOLEAN : StartListSettle(ok))

\* The operations of the deferred variant. What callTool answers plays no
\* part in getClient: here every callTool is rejected.
NextDeferred ==
    \/ \E c \in Callers, r \in 1..Len(registry), p \in ArgValues : Execute(c, r, p)
    \/ \E c \in Callers, ok \in BOOLEAN : GetClientResume(c, ok)
    \/ \E c \in Callers : WaiterResume(c)
    \/ \E c \in Callers, out \in {[status |-> "rejected"]} :
          CallToolSettle(c, out)
    \/ \E c \in Callers : Return(c)
    \/ StartDeferred
    \/ StopBegin
    \/ \E ok \in BOOLEAN : StopCloseSettle(ok)

InitDeferred == Init /\ variant = "deferred"

\* The deferred variant when every connection attempt resolves in the end
\* and a getClient call whose promise has settled resumes: the promise of
\* connectServer settles, and the run of the microtasks that follows resumes
\* every call that awaits it.
SpecSettling ==
    /\ InitDeferred /\ [][NextDeferred]_vars
    /\ \A c \in Callers : WF_vars(\E ok \in BOOLEAN : GetClientResume(c, ok))
    /\ \A c \in Callers : WF_vars(WaiterResume(c))

\* ------------------------------------------------- single calls of functions
\* Longest server or tool name given to sanitizeToolName.
MaxNameLen == 2

\* A letter, a capital, a character outside [a-zA-Z0-9_], and the underscore.
NameChars == {"a", "B", "-", "_"}

RECURSIVE NamesUpTo(_)
NamesUpTo(n) ==
    IF n = 0 THEN {<< >>}
    ELSE NamesUpTo(n - 1)
         \cup {Append(w, ch) : w \in {v \in NamesUpTo(n - 1) : Len(v) = n - 1},
                               ch \in NameChars}

LinearApi == <<"L","i","n","e","a","r"," ","A","P","I">>
ListIssues == <<"l","i","s","t","-","i","s","s","u","e","s">>

\* Server names and tool names: every string up to MaxNameLen over NameChars,
\* and those of the README's example.
Names == NamesUpTo(MaxNameLen) \cup {LinearApi, ListIssues}

\* The transport fields of a ServerConfig: each of command and url set or not.
TransportConfigs == [command : BOOLEAN, url : BOOLEAN]

ProbeInputs ==
    {[op |-> "sanitize", stage |-> "input", server |-> s, tool |-> t, prefix |-> p] :
        s \in Names, t \in Names, p \in BOOLEAN}
    \cup {[op |-> "connect", stage |-> "input", cfg |-> cfg] : cfg \in TransportConfigs}

InitUnits ==
    /\ InitPlugin
    /\ variant = "eager"
    /\ probe \in ProbeInputs

\* sanitizeToolName(serverName, toolName, prefix)
SanitizeCall ==
    /\ probe.op = "sanitize" /\ probe.stage = "input"
    /\ probe' = [op |-> "sanitize", stage |-> "named",
                 server |-> probe.server, tool |-> probe.tool, prefix |-> probe.prefix,
                 local |-> sanitizeToolName(probe.server, probe.tool, probe.prefix)]
    /\ UNCHANGED pluginVars

\* The same call once more, and the local name it gave put through the
\* sanitize function again.
SanitizeAgain ==
    /\ probe.op = "sanitize" /\ probe.stage = "named"
    /\ probe' = [op |-> "sanitize", stage |-> "again",
                 server |-> probe.server, tool |-> probe.tool, prefix |-> probe.prefix,
                 local |-> probe.local,
                 second |-> sanitizeToolName(probe.server, probe.tool, probe.prefix),
                 resanitized |-> Sanitize(probe.local)]
    /\ UNCHANGED pluginVars

\* connectServer(serverName, serverConfig) up to client.connect, or its throw.
ConnectCall ==
    /\ probe.op = "connect" /\ probe.stage = "input"
    /\ probe' = [op |-> "connect",
                 stage |-> IF TransportOf(probe.cfg) = "none" THEN "thrown" ELSE "connecting",
                 cfg |-> probe.cfg,
                 attempt |-> NewAttempt(Todo, probe.cfg, 0, 0)]
    /\ UNCHANGED pluginVars

\* await client.connect(transport) settles.
ConnectSettle(ok) ==
    /\ probe.op = "connect" /\ probe.stage = "connecting"
    /\ probe' = [op |-> "connect", stage |-> "settled", cfg |-> probe.cfg,
                 attempt |-> [probe.attempt EXCEPT !.state = IF ok THEN "ok" ELSE "fail"]]
    /\ UNCHANGED pluginVars

NextUnits ==
    \/ SanitizeCall
    \/ SanitizeAgain
    \/ ConnectCall
    \/ \E ok \in BOOLEAN : ConnectSettle(ok)

SpecUnits == InitUnits /\ [][NextUnits]_vars

\* ------------------------------------------------------------------- claims
\* The server a caller's tool belongs to.
ServerOf(c) == registry[reg[c]].server

\* The caller waits in getClient for a connection attempt that has not
\* settled (a waiter of a settled attempt is about to resume with its outcome).
Waiting(c) ==
    /\ pc[c] \in {"awaitOwn", "awaitPending"}
    /\ attempts[att[c]].state = "pending"

\* The attempts for a server that have not settled.
PendingAttempts(s) ==
    {a \in 1..Len(attempts) : attempts[a].server = s /\ attempts[a].state = "pending"}

\* What getClient gave the caller: the session, or the failure of the attempt.
Outcome(c) ==
    IF fwd[c] # << >> THEN [session |-> fwd[c][1].session]
    ELSE [failure |-> result[c].content.items[1].text.cause]

\* C1: any number of getSession calls for a server without a live session,
\* issued before the connection attempt resolves, start exactly one attempt:
\* a server never has two unsettled attempts, all the callers waiting for a
\* server wait for the same attempt, and the callers that joined an attempt
\* receive the same outcome, the same session or the same failure.
C1_OneAttemptSharedOutcome ==
    /\ \A s \in ServerNames : Cardinality(PendingAttempts(s)) <= 1
    /\ \A c, d \in Callers :
          (Waiting(c) /\ Waiting(d) /\ ServerOf(c) = ServerOf(d)) => att[c] = att[d]
    /\ \A c, d \in Callers :
          (/\ via[c] \in {"connect", "pending"} /\ via[d] \in {"connect", "pending"}
           /\ att[c] = att[d]
           /\ pc[c] \in {"awaitCall", "done"} /\ pc[d] \in {"awaitCall", "done"})
          => Outcome(c) = Outcome(d)

\* C1 witness: a caller that started an attempt and a caller that joined it
\* have both received the failure of that one attempt.
C1_Witness ==
    \E c, d \in Callers :
        /\ via[c] = "connect" /\ via[d] = "pending" /\ att[c] = att[d]
        /\ pc[c] = "done" /\ pc[d] = "done"
        /\ Outcome(c) = [failure |-> "connect failed"]
        /\ Outcome(d) = [failure |-> "connect failed"]
        /\ Len(attempts) = 1

\* C2: in every reachable state no server has a live session in clients and
\* a pending entry in connecting at the same time.
C2_LiveAndPendingDisjoint ==
    \A s \in ServerNames : ~(MapHas(clients, s) /\ connecting[s] # 0)

\* C2 witness: an attempt has succeeded: its session is stored and the
\* pending entry of its server is gone, while another server is pending.
C2_Witness ==
    \E s, u \in ServerNames :
        /\ MapHas(clients, s) /\ attempts[MapGet(clients, s)].run = 0
        /\ connecting[s] = 0
        /\ connecting[u] # 0

\* The attempts for server s, and whether the latest of them has failed.
AttemptsFor(s) == {a \in 1..Len(attempts) : attempts[a].server = s}

LastAttemptFailed(s) ==
    \E a \in AttemptsFor(s) :
        /\ attempts[a].state = "fail"
        /\ \A b \in AttemptsFor(s) : b <= a

\* Caller c issues its call in this step.
Calls(c) == reg[c] = 0 /\ reg'[c] # 0

\* C3: once an attempt for a server has failed its pending entry is gone
\* (a pending entry always refers to an unsettled attempt), and the next
\* getSession for the server starts a new attempt, which is pending, instead
\* of handing out the old failure; after every failure again.
C3_StateOk ==
    \A s \in ServerNames :
        /\ connecting[s] # 0 => attempts[connecting[s]].state = "pending"
        /\ LastAttemptFailed(s) => connecting[s] = 0

C3_StepOk ==
    \A c \in Callers :
        (Calls(c) /\ variant = "deferred"
         /\ LastAttemptFailed(registry[reg'[c]].server))
        => /\ Len(attempts') = Len(attempts) + 1
           /\ att'[c] = Len(attempts')
           /\ attempts'[att'[c]].state = "pending"
           /\ attempts'[att'[c]].server = registry[reg'[c]].server
           /\ connecting'[registry[reg'[c]].server] = att'[c]

\* C3: after a connection attempt for a server fails, the server has no
\* pending entry, and the next getSession call for that server starts a new
\* attempt instead of returning the old failure.
C3_RetryAfterFailure == [](C3_StateOk) /\ [][C3_StepOk]_vars

\* C3 witness: a server has a failed attempt and a later attempt, which a
\* caller started and is waiting for.
C3_Witness ==
    \E a, b \in 1..Len(attempts), c \in Callers :
        /\ a < b /\ attempts[a].server = attempts[b].server
        /\ attempts[a].state = "fail" /\ attempts[a].transport # "none"
        /\ attempts[b].state = "pending"
        /\ pc[c] = "awaitOwn" /\ att[c] = b

\* C4: a getSession call for a server with a live session is given that
\* session, starts no connection attempt and creates no pending entry.
C4_StepOk ==
    \A c \in Callers :
        (Calls(c) /\ MapHas(clients, registry[reg'[c]].server))
        => /\ att'[c] = MapGet(clients, registry[reg'[c]].server)
           /\ fwd'[c][1].session = att'[c]
           /\ attempts' = attempts
           /\ connecting' = connecting
           /\ clients' = clients

\* C4: a getSession call for a server with a live session returns that
\* session and starts no connection attempt.
C4_LiveSessionReused == [][C4_StepOk]_vars

\* C4 witness: a deferred call found the live session of its server, which
\* an earlier call had connected.
C4_Witness ==
    \E c \in Callers :
        /\ variant = "deferred"
        /\ via[c] = "existing" /\ pc[c] = "awaitCall"
        /\ att[c] = MapGet(clients, ServerOf(c))
        /\ Len(attempts) = 1

\* The text of the single content item of a result mentions the value.
Mentions(res, field, value) ==
    /\ field \in DOMAIN res.content.items[1].text
    /\ res.content.items[1].text[field] = value

\* execute returned without having obtained a session, or callTool failed.
FailurePath(c) == fwd[c] = << >> \/ reply[c].status = "rejected"

\* C5: every call of a tool's handler returns {content, isError}; when the
\* session could not be obtained or the remote invoke failed, isError is
\* true and the single text item names the server and the remote operation.
C5_FailureNamesServerAndRemote ==
    \A c \in Callers :
        pc[c] = "done" =>
            /\ DOMAIN result[c] = {"content", "isError"}
            /\ FailurePath(c) =>
                  /\ result[c].isError = TRUE
                  /\ result[c].content.shape = "array"
                  /\ Len(result[c].content.items) = 1
                  /\ result[c].content.items[1].type = "text"
                  /\ Mentions(result[c], "server", ServerOf(c))
                  /\ Mentions(result[c], "remote", registry[reg[c]].remote)

\* C6: an invocation forwards at most one callTool, exactly one once it has
\* a session, to a session of the server of its registration, under the
\* registration's remote name and with the caller's arguments; when the
\* remote resolves with a content array and no error flag, execute returns
\* that content and isError = false.
C6_ForwardsToRegisteredTarget ==
    \A c \in Callers :
        /\ Len(fwd[c]) <= 1
        /\ pc[c] = "awaitCall" => Len(fwd[c]) = 1
        /\ (pc[c] = "done" /\ reply[c].status # "none") => Len(fwd[c]) = 1
        /\ \A i \in 1..Len(fwd[c]) :
              /\ fwd[c][i].name = registry[reg[c]].remote
              /\ fwd[c][i].arguments = args[c]
              /\ args[c] \in ArgValues
              /\ attempts[fwd[c][i].session].server = registry[reg[c]].server
              /\ attempts[fwd[c][i].session].state = "ok"
        /\ (pc[c] = "done" /\ reply[c].status = "resolved"
            /\ reply[c].shape = "array" /\ reply[c].flag = "absent")
           => result[c] = [content |-> reply[c].content, isError |-> FALSE]

\* C6 witness: a call of a tool whose local name another server's tool also
\* has was forwarded under a remote name that differs from the local name,
\* and returned the remote's content.
C6_Witness ==
    \E c \in Callers, j \in 1..Len(registry) :
        /\ pc[c] = "done" /\ reply[c].status = "resolved"
        /\ reply[c].shape = "array" /\ reply[c].flag = "absent"
        /\ result[c] = [content |-> RemoteContent, isError |-> FALSE]
        /\ j # reg[c] /\ registry[j].name = registry[reg[c]].name
        /\ registry[j].server # registry[reg[c]].server
        /\ fwd[c][1].name # registry[reg[c]].name

\* C7: when stop ends it has returned, not thrown, and close has been
\* called and awaited on every session that was stored when stop was called,
\* whichever of the closes failed.
C7_StepOk ==
    stops' = stops + 1
    => /\ lastStop' = "returned"
       /\ \A i \in 1..Len(stopSnapshot) : attempts'[stopSnapshot[i]].close = "settled"

\* C7: whenever stop returns, close has been called and has settled on every
\* session that was live when stop began, also when some close failed.
C7_StopClosesAll == [][C7_StepOk]_vars

\* C7 witness: the close of the first session has failed and close has been
\* called on the second one.
C7_Witness ==
    /\ stopPc = "clients" /\ stopIdx = 2 /\ closeFailed
    /\ Len(stopSnapshot) = 2
    /\ attempts[clients[1].v].close = "settled"
    /\ attempts[clients[2].v].close = "called"

\* C8: when stop returns the pool is empty: no stored session and no pending
\* entry for any server.
C8_StepOk ==
    stops' = stops + 1
    => /\ clients' = << >>
       /\ \A s \in ServerNames : connecting'[s] = 0

\* C8: whenever stop returns, the pool holds no live session and no pending
\* connection.
C8_PoolEmptyAfterStop == [][C8_StepOk]_vars

\* C9: a session that is connected and on which close was never called
\* belongs to an attempt started after the last completed stop: every
\* session, also one whose attempt was in flight during a stop, is closed by
\* that stop.
C9_NoSessionSurvivesStop ==
    \A a \in 1..Len(attempts) :
        (attempts[a].state = "ok" /\ attempts[a].close = "none")
        => attempts[a].epoch = stops

\* The registrations of a tool of a server.
RegistrationsOf(s, tool) ==
    {i \in 1..Len(registry) :
        /\ registry[i].server = s /\ registry[i].remote = tool.name
        /\ registry[i].name = sanitizeToolName(s, tool.name, PrefixOf(ConfigOf(s)))}

\* C10: start never throws; when it has returned, every enabled server with
\* a transport has been tried in this start whatever happened to the servers
\* before it: its connect has settled and, if it succeeded, its listTools
\* has settled; and every tool of every server is registered once per
\* successful listTools of that server.
C10_StartupFailuresAreLocal ==
    /\ lastStart # "threw"
    /\ (variant = "eager" /\ lastStart = "returned") =>
          \A i \in 1..Len(EnabledServers) :
              TransportOf(EnabledServers[i]) # "none" =>
                  \E a \in AttemptsFor(EnabledServers[i].name) :
                      /\ attempts[a].run = starts
                      /\ attempts[a].state # "pending"
                      /\ attempts[a].state = "ok" => attempts[a].listed # "none"
    /\ variant = "eager" =>
          \A s \in ServerNames : \A k \in 1..Len(ListTools(s)) :
              Cardinality(RegistrationsOf(s, ListTools(s)[k]))
                = Cardinality({a \in AttemptsFor(s) : attempts[a].listed = "ok"})

\* C10 witness: start has returned; the connect of the first server failed,
\* the second server has no transport, and the tool of the third is registered.
C10_Witness ==
    /\ variant = "eager" /\ lastStart = "returned" /\ starts = 1
    /\ \E a \in AttemptsFor(Todo) : attempts[a].state = "fail"
    /\ TransportOf(ConfigOf(Bad)) = "none"
    /\ \E i \in 1..Len(registry) : registry[i].server = Web

\* ------------------------------------------------------------------------ C11
\* A caller waits in getClient for the session of a server other than the
\* hung one.
WaitsForOther(c) ==
    /\ pc[c] \in {"awaitOwn", "awaitPending"}
    /\ attempts[att[c]].server # HungServer

\* start is suspended on the connect of the hung server.
StartWaitsForHung ==
    startPc = "connect" /\ EnabledServers[startIdx].name = HungServer

\* The connect of the run's start to the server has settled.
StartupReached(s) ==
    \E a \in 1..Len(attempts) :
        attempts[a].server = s /\ attempts[a].run = starts /\ attempts[a].state # "pending"

\* C11: while the connection of one server hangs, a getSession call for any
\* other server completes, an invocation that has a session completes, and
\* the startup goes on to connect the other servers: when start waits for the
\* hung server, the connection of the next enabled server settles in the end.
C11_OnlyWaitersOfHungServerStall ==
    /\ \A c \in Callers : WaitsForOther(c) ~> ~WaitsForOther(c)
    /\ \A c \in Callers : (pc[c] = "awaitCall") ~> (pc[c] # "awaitCall")
    /\ StartWaitsForHung ~> StartupReached(Web)

\* ------------------------------------------------------------------------ C12
\* The server is in the live configuration and not disabled.
Active(s) == HasConfig(s) /\ ConfigOf(s).enabled # "false"

\* The tool of the cache entry has been registered for the entry's server.
Registered(serverName, tool) ==
    \E i \in 1..Len(registry) :
        registry[i].server = serverName /\ registry[i].remote = tool.name

\* C12: no registered tool, no connection attempt, no stored session and no
\* stored transport belongs to a server that is absent from the
\* configuration or disabled; in the deferred variant with a usable cache
\* every tool of every cache entry of an enabled configured server is
\* registered.
C12_OnlyActiveServers ==
    /\ \A i \in 1..Len(registry) : Active(registry[i].server)
    /\ \A a \in 1..Len(attempts) : Active(attempts[a].server)
    /\ \A i \in 1..Len(clients) : Active(clients[i].k)
    /\ \A i \in 1..Len(transports) : Active(transports[i].k)
    /\ (variant = "deferred" /\ CacheUsable(cache)) =>
          \A e \in 1..Len(cache.servers) :
              Active(cache.servers[e].server) =>
                  \A t \in 1..Len(cache.servers[e].tools) :
                      Registered(cache.servers[e].server, cache.servers[e].tools[t])

\* C12 witness: the startup of the eager variant has returned with the tools
\* of web registered, and the disabled server was left alone.
C12_Witness ==
    /\ variant = "eager" /\ lastStart = "returned"
    /\ \E i \in 1..Len(registry) : registry[i].server = Web
    /\ \A a \in 1..Len(attempts) : attempts[a].server # Off

\* ------------------------------------------------------------------------ C13
\* The cache file is missing, is not JSON, has a version tag other than 1, or
\* has a servers field that is not a sequence.
CacheRejected ==
    \/ cache.kind # "json"
    \/ cache.version # 1
    \/ ~cache.serversIsArray

\* C13: in the deferred variant with such a cache file, register has
\* returned with no tool registered (and without registering the service),
\* and nothing is registered or connected later.
C13_RejectedCacheRegistersNothing ==
    (variant = "deferred" /\ CacheRejected) =>
        /\ registry = << >>
        /\ ~ServiceRegistered
        /\ attempts = << >> /\ clients = << >>

\* C13 witness: register has run on a cache file whose version tag is 2 and
\* which lists the tools of configured servers.
C13_Witness ==
    /\ variant = "deferred"
    /\ cache = WrongVersionFile /\ Len(cache.servers) > 0
    /\ registry = << >>

\* ------------------------------------------------------------------------ C14
\* connectServer has been called with a configuration that has neither
\* command nor url, or both.
NotExactlyOneTransport ==
    /\ probe.op = "connect" /\ probe.stage # "input"
    /\ probe.cfg.command = probe.cfg.url

\* C14: connectServer called with a configuration that has neither a command
\* nor a url, or that has both, throws the configuration error before any
\* transport is made: no connect is awaited and no session is opened.
C14_ExactlyOneTransport ==
    NotExactlyOneTransport =>
        /\ probe.stage = "thrown"
        /\ probe.attempt.transport = "none"
        /\ probe.attempt.state # "ok"

\* ------------------------------------------------------------------------ C15
\* C15: no two registerTool calls were made with the same local name.
C15_LocalNamesUnique ==
    \A i, j \in 1..Len(registry) : registry[i].name = registry[j].name => i = j

\* ------------------------------------------------------------------------ C16
\* C16: each operation of each server is registered once at most: no
\* registerTool call is made again for a server and remote name that are
\* registered already, whatever starts, stops and invocations there are.
C16_RegisteredOnce ==
    \A i, j \in 1..Len(registry) :
        (registry[i].server = registry[j].server /\ registry[i].remote = registry[j].remote)
        => i = j

\* ------------------------------------------------------------------------ C17
\* No handler has been invoked yet.
NothingInvoked == \A c \in Callers : pc[c] = "idle"

\* A step of the deferred variant that starts a connection attempt is the
\* step of an invocation: the attempt is for the server of the invoked tool.
C17_StepOk ==
    (variant = "deferred" /\ attempts' # attempts /\ Len(attempts') > Len(attempts)) =>
        /\ Len(attempts') = Len(attempts) + 1
        /\ \E c \in Callers :
              /\ pc[c] = "idle" /\ pc'[c] = "awaitOwn"
              /\ att'[c] = Len(attempts')
              /\ registry[reg'[c]].server = attempts'[Len(attempts')].server

\* C17: in the deferred variant no connection attempt exists after load,
\* registration and service start as long as no tool has been invoked, and
\* every connection attempt is started by the invocation of a tool of the
\* attempt's server.
C17_ConnectsOnlyOnInvocation ==
    /\ []((variant = "deferred" /\ NothingInvoked) => attempts = << >>)
    /\ [][C17_StepOk]_vars

\* C17 witness: the first attempt of a run of the deferred variant belongs to
\* the invocation that waits for it.
C17_Witness ==
    /\ variant = "deferred"
    /\ Len(attempts) = 1
    /\ \E c \in Callers :
          /\ via[c] = "connect" /\ att[c] = 1
          /\ registry[reg[c]].server = attempts[1].server

\* ------------------------------------------------------------------------ C18
LinearApiListIssues ==
    <<"l","i","n","e","a","r","_","a","p","i","_","l","i","s","t","_","i","s","s","u","e","s">>

\* C18: computing the local name of a server name, tool name and prefix flag
\* a second time gives the same name, and the sanitize function maps a local
\* name that sanitizeToolName produced to itself; server "Linear API" and
\* tool "list-issues" give linear_api_list_issues with the prefix and
\* list_issues without it.
C18_SanitizeIdempotent ==
    (probe.op = "sanitize" /\ probe.stage = "again") =>
        /\ probe.second = probe.local
        /\ probe.resanitized = probe.local
        /\ (probe.server = LinearApi /\ probe.tool = ListIssues) =>
              probe.local = IF probe.prefix THEN LinearApiListIssues
                            ELSE SubSeq(LinearApiListIssues, 12, 22)

\* ------------------------------------------------------------------------ C19
\* The single text item that holds the stringified result of callTool.
JsonOfResult(res) ==
    [shape |-> "array",
     items |-> << TextItem([tmpl |-> "json", shape |-> res.shape, flag |-> res.flag]) >>]

\* C19: when callTool has resolved, the handler returns the result's content
\* itself if it is a content array and the single text item with the
\* stringified result otherwise; isError is the result's own flag when it has
\* one, and false when it has none.
C19_ContentPassedOrWrapped ==
    \A c \in Callers :
        (pc[c] = "done" /\ reply[c].status = "resolved") =>
            /\ result[c].content = IF reply[c].shape = "array"
                                   THEN reply[c].content
                                   ELSE JsonOfResult(reply[c])
            /\ result[c].isError = (reply[c].flag = "true")

\* ------------------------------------------------------------------------ C20
\* The pool entries of the servers other than s are the same after the step.
OthersUntouched(s) ==
    \A t \in ServerNames \ {s} :
        /\ connecting'[t] = connecting[t]
        /\ MapHas(clients', t) = MapHas(clients, t)
        /\ MapHas(clients, t) => MapGet(clients', t) = MapGet(clients, t)

\* getClient throws in this step of caller c: for a server without a config
\* (no attempt is started), or because the attempt it started was rejected;
\* a caller that joined the rejected attempt receives the rejection without
\* touching the pool.
C20_StepOk ==
    \A c \in Callers :
        /\ (variant = "deferred" /\ pc[c] = "idle" /\ pc'[c] = "done") =>
              /\ attempts' = attempts
              /\ connecting'[registry[reg'[c]].server] = 0
              /\ ~MapHas(clients', registry[reg'[c]].server)
              /\ OthersUntouched(registry[reg'[c]].server)
        /\ (variant = "deferred" /\ pc[c] = "awaitOwn" /\ pc'[c] = "done") =>
              /\ connecting'[ServerOf(c)] = 0
              /\ ~MapHas(clients', ServerOf(c))
              /\ OthersUntouched(ServerOf(c))
        /\ (variant = "deferred" /\ pc[c] = "awaitPending" /\ pc'[c] = "done") =>
              /\ clients' = clients /\ connecting' = connecting

\* C20: getClient for a server without a config takes the branch that throws
\* and starts nothing; a getClient call that fails leaves neither a session
\* nor a pending entry for its server and leaves the entries of every other
\* server as they were.
C20_FailedGetClientLeavesNoEntry ==
    /\ [](\A s \in ServerNames :
            ~HasConfig(s) =>
                GetClientBranch(<< >>, [t \in ServerNames |-> 0], s) = "noconfig")
    /\ [][C20_StepOk]_vars

\* C20 witness: the attempt a caller started has failed and the caller has
\* its failure, while another server has a session or a pending attempt.
C20_Witness ==
    /\ variant = "deferred"
    /\ \E c \in Callers :
          /\ pc[c] = "done" /\ via[c] = "connect"
          /\ attempts[att[c]].state = "fail"
          /\ result[c].isError
          /\ connecting[ServerOf(c)] = 0 /\ ~MapHas(clients, ServerOf(c))
          /\ \E t \in ServerNames \ {ServerOf(c)} :
                MapHas(clients, t) \/ connecting[t] # 0

\* ------------------------------------------------------------------------ C21
\* The sessions of a server that are connected and on which close has not
\* been called.
OpenSessions(s) ==
    {a \in 1..Len(attempts) :
        attempts[a].server = s /\ attempts[a].state = "ok" /\ attempts[a].close = "none"}

\* C21: no server has two connected sessions at a time on which close was
\* not called: a stored session is replaced only after it has been closed.
C21_OneOpenSessionPerServer ==
    \A s \in ServerNames : Cardinality(OpenSessions(s)) <= 1

\* ------------------------------------------------------------------------ C22
\* The caller is inside getClient: it awaits the attempt it started, or the
\* pending attempt it was given.
InGetClient(c) == pc[c] \in {"awaitOwn", "awaitPending"}

\* C22: when every connection attempt resolves, every getClient call comes
\* back with a session or a failure, whether it started the attempt or
\* joined it, and every pending entry is deleted in the end.
C22_GetClientReturns ==
    /\ \A c \in Callers : InGetClient(c) ~> ~InGetClient(c)
    /\ \A s \in ServerNames : (connecting[s] # 0) ~> (connecting[s] = 0)

\* C22 witness: a caller that started an attempt and a caller that joined it
\* are both back from getClient, and the pending entry is gone.
C22_Witness ==
    \E c, d \in Callers :
        /\ via[c] = "connect" /\ via[d] = "pending" /\ att[c] = att[d]
        /\ pc[c] \in {"awaitCall", "done"} /\ pc[d] \in {"awaitCall", "done"}
        /\ attempts[att[c]].state = "ok"
        /\ connecting[attempts[att[c]].server] = 0

\* ------------------------------------------------------------------------ C23
\* A stop has completed, none is running, and nothing has been connected
\* for the server since: the pool is to be as fresh for it.
FreshAfterStop(s) ==
    /\ stops >= 1 /\ stopPc = "idle"
    /\ \A a \in 1..Len(attempts) : attempts[a].server = s => attempts[a].epoch < stops

\* Caller c begins an invocation in this step.
Invoked(c) == pc[c] \in {"idle", "returned"} /\ pc'[c] \notin {"idle", "returned"}

C23_StepOk ==
    \A c \in Callers :
        /\ (variant = "deferred" /\ Invoked(c) /\ FreshAfterStop(registry[reg'[c]].server)) =>
              /\ via'[c] = "connect"
              /\ Len(attempts') = Len(attempts) + 1
              /\ att'[c] = Len(attempts')
        /\ (variant = "deferred" /\ stops >= 1 /\ pc[c] = "awaitOwn"
               /\ attempts[att[c]].epoch >= 1 /\ pc'[c] = "awaitCall") =>
              /\ MapHas(clients', ServerOf(c))
              /\ MapGet(clients', ServerOf(c)) = att[c]
        /\ (variant = "eager" /\ Invoked(c) /\ FreshAfterStop(registry[reg'[c]].server)) =>
              /\ attempts' = attempts /\ clients' = clients
              /\ result'[c] = NotConnectedResult(registry[reg'[c]].server,
                                                 registry[reg'[c]].remote)

\* C23: after a stop has completed, the first invocation of a tool of a
\* server in the deferred variant starts a new connection attempt, and the
\* session is stored when the attempt succeeds; in the eager variant such an
\* invocation starts no connection and returns the not-connected failure.
C23_PoolUsableAfterStop == [][C23_StepOk]_vars

====
